---------------------------- MODULE Spec2Model ----------------------------
(***************************************************************************)
(* Model of page-graph (src/main.rs): link extraction from HTML text, the  *)
(* normalisation pipeline of main, make_page_graph and find_orphans.       *)
(*                                                                         *)
(* Page identifiers of the graph part are TLA+ strings.  Text of the page  *)
(* part is a sequence of one-character strings, so that the regular        *)
(* expressions of the program are matched character by character.          *)
(***************************************************************************)
EXTENDS Naturals, Sequences, FiniteSets

VARIABLES
    \* ---- make_page_graph / find_orphans ----
    pc,          \* position in make_page_graph / find_orphans
    data,        \* the HashMap<String, Vec<String>> handed to make_page_graph
    todo,        \* keys of data the outer for loop has not yielded yet
    curKey,      \* k of the running outer iteration
    vi,          \* index of the next value of the inner for loop
    graph,       \* the GraphMap: nodes (insertion order), adj, edges
    orphans,     \* HashSet orphans of find_orphans
    stack,       \* dfs.stack
    discovered,  \* dfs.discovered
    v,           \* the node the last dfs.next returned
    \* ---- the body of the crawl loop of main, lines 63-81 ----
    ppc,         \* position in the loop body
    anchors,     \* the anchors the page text is made of
    file,        \* the text of the page, one character per element
    urls,        \* get_urls_from(&file), line 68
    traplUrls,   \* filter_regex(&urls, &FILTER_TRAPL_URLS), line 71
    ui,          \* index of the url the iterator chain of lines 73-78 works on
    raw,         \* the url handed to filter_prefix
    cur,         \* the string as it passes through the chain
    tags,        \* the vec the chain collects
    map          \* the HashMap of main, page name -> tags

gvars == <<pc, data, todo, curKey, vi, graph, orphans, stack, discovered, v>>

pvars == <<ppc, anchors, file, urls, traplUrls, ui, raw, cur, tags, map>>

vars == <<gvars, pvars>>

Range(s) == {s[i] : i \in DOMAIN s}

SeqsUpTo(S, n) == UNION {[1..k -> S] : k \in 0..n}

---------------------------------------------------------------------------
(* Bounds and input sets of the graph part *)

\* most links (over all pages together) of a LinkageMap
MaxLinks == 3

\* the root of the walk, find_orphans line 116
RootHtml == "index.html"
Root == "index"

Ids == {"index", "a", "b", "c"}

NoKey == "-"
NoNode == "-"

\* the vec of page k: the targets of the links whose source is k, in order
LinksOf(links, k) ==
    LET sel == SelectSeq(links, LAMBDA l : l[1] = k)
    IN  [i \in 1..Len(sel) |-> sel[i][2]]

MapsOver(ids, n) ==
    UNION { { [k \in keys |-> LinksOf(links, k)] :
                links \in SeqsUpTo(keys \X ids, n) } :
            keys \in SUBSET ids }

\* the maps over three pages with up to MaxLinks links, and those over four
\* pages with one link less
LinkageMaps == MapsOver(Ids \ {"c"}, MaxLinks) \cup MapsOver(Ids, MaxLinks - 1)

---------------------------------------------------------------------------
(* petgraph::graphmap::GraphMap<&str, &str, Directed> as used by main.rs *)

EmptyGraph == [nodes |-> <<>>, adj |-> [n \in Ids |-> <<>>], edges |-> <<>>]

ContainsNode(g, n) == n \in Range(g.nodes)

\* graph.add_node(n): nodes.entry(n).or_insert(Vec::new())
AddNode(g, n) ==
    IF ContainsNode(g, n) THEN g
    ELSE [g EXCEPT !.nodes = Append(@, n), !.adj[n] = <<>>]

\* graph.add_edge(a, b, "links") with the arguments swapped
AddEdgeReversed(g, a, b) ==
    IF <<b, a>> \in Range(g.edges) THEN g
    ELSE LET g1 == AddNode(g, b)
             g2 == [g1 EXCEPT !.adj[b] = Append(@, <<a, "Outgoing">>)]
             g3 == IF a = b THEN g2
                   ELSE LET g4 == AddNode(g2, a)
                        IN  [g4 EXCEPT !.adj[a] = Append(@, <<b, "Incoming">>)]
         IN  [g3 EXCEPT !.edges = Append(@, <<b, a>>)]

\* graph.add_edge(a, b, "links") without the check for an existing edge
AddEdgeNoDedup(g, a, b) ==
    LET g1 == AddNode(g, a)
        g2 == [g1 EXCEPT !.adj[a] = Append(@, <<b, "Outgoing">>)]
        g3 == IF a = b THEN g2
              ELSE LET g4 == AddNode(g2, b)
                   IN  [g4 EXCEPT !.adj[b] = Append(@, <<a, "Incoming">>)]
    IN  [g3 EXCEPT !.edges = Append(@, <<a, b>>)]

\* graph.add_edge(a, b, "links"): an edge already in the edge map only has
\* its weight replaced; a new one is pushed on the adjacency list of a as
\* Outgoing and, unless a = b, on that of b as Incoming
AddEdge(g, a, b) ==
    IF <<a, b>> \in Range(g.edges) THEN g
    ELSE LET g1 == AddNode(g, a)
             g2 == [g1 EXCEPT !.adj[a] = Append(@, <<b, "Outgoing">>)]
             g3 == IF a = b THEN g2
                   ELSE LET g4 == AddNode(g2, b)
                        IN  [g4 EXCEPT !.adj[b] = Append(@, <<a, "Incoming">>)]
         IN  [g3 EXCEPT !.edges = Append(@, <<a, b>>)]

\* graph.neighbors(a) that yields the entries of both directions
NeighborsUndirected(g, a) ==
    IF ContainsNode(g, a)
    THEN [i \in 1..Len(g.adj[a]) |-> g.adj[a][i][1]]
    ELSE <<>>

\* graph.neighbors(a) of a directed GraphMap: the Outgoing entries of the
\* adjacency list of a, in order; nothing for a node the graph does not have
Neighbors(g, a) ==
    IF ContainsNode(g, a)
    THEN LET out == SelectSeq(g.adj[a], LAMBDA e : e[2] = "Outgoing")
         IN  [i \in 1..Len(out) |-> out[i][1]]
    ELSE <<>>

\* the for loop of Dfs::next over the successors of the node just visited:
\* push every successor that is not discovered
RECURSIVE PushSuccessors(_, _, _)
PushSuccessors(st, succ, disc) ==
    IF succ = <<>> THEN st
    ELSE PushSuccessors(IF Head(succ) \in disc THEN st ELSE Append(st, Head(succ)),
                        Tail(succ), disc)

\* Dfs::next without the test of discovered.visit(node)
RECURSIVE DfsNextNoVisitTest(_, _, _)
DfsNextNoVisitTest(g, st, disc) ==
    IF st = <<>> THEN [node |-> NoNode, stack |-> st, discovered |-> disc]
    ELSE LET node == st[Len(st)]
             rest == SubSeq(st, 1, Len(st) - 1)
         IN  LET d2 == disc \cup {node}
             IN  [node |-> node,
                  stack |-> PushSuccessors(rest, Neighbors(g, node), d2),
                  discovered |-> d2]

\* Dfs::next: pop until a node that was not discovered comes up, mark it,
\* push its undiscovered successors and return it; None on an empty stack
RECURSIVE DfsNext(_, _, _)
DfsNext(g, st, disc) ==
    IF st = <<>> THEN [node |-> NoNode, stack |-> st, discovered |-> disc]
    ELSE LET node == st[Len(st)]
             rest == SubSeq(st, 1, Len(st) - 1)
         IN  IF node \notin disc
             THEN LET d2 == disc \cup {node}
                  IN  [node |-> node,
                       stack |-> PushSuccessors(rest, Neighbors(g, node), d2),
                       discovered |-> d2]
             ELSE DfsNext(g, rest, disc)

\* Dfs::new that falls back to the first node when start is not in the graph
DfsNewFallback(g, start) ==
    IF ContainsNode(g, start) \/ g.nodes = <<>> THEN <<start>> ELSE <<g.nodes[1]>>

\* Dfs::new(&graph, start): the stack holds start, whether or not the graph
\* has such a node
DfsNew(g, start) == <<start>>

---------------------------------------------------------------------------
(* make_page_graph, lines 126-137 *)

InitGraph ==
    /\ data \in LinkageMaps
    /\ pc = "build"
    /\ todo = DOMAIN data
    /\ curKey = NoKey
    /\ vi = 1
    /\ graph = EmptyGraph
    /\ orphans = {}
    /\ stack = <<>>
    /\ discovered = {}
    /\ v = NoNode
    /\ ppc = "idle"
    /\ anchors = <<>>
    /\ file = <<>>
    /\ urls = <<>>
    /\ traplUrls = <<>>
    /\ ui = 1
    /\ raw = <<>>
    /\ cur = <<>>
    /\ tags = <<>>
    /\ map = <<>>

InnerDone == IF curKey = NoKey THEN TRUE ELSE vi > Len(data[curKey])

\* for (k, values) in data { graph.add_node(k.as_str()); ...
\* a HashMap yields its entries in an order of its own
BuildKey ==
    /\ pc = "build"
    /\ InnerDone
    /\ \E k \in todo :
        /\ graph' = AddNode(graph, k)
        /\ curKey' = k
        /\ todo' = todo \ {k}
    /\ vi' = 1
    /\ UNCHANGED <<pc, data, orphans, stack, discovered, v, pvars>>

\* for value in values { graph.add_node(value); graph.add_edge(k, value, "links") }
BuildValue ==
    /\ pc = "build"
    /\ ~InnerDone
    /\ LET value == data[curKey][vi]
       IN  graph' = AddEdge(AddNode(graph, value), curKey, value)
    /\ vi' = vi + 1
    /\ UNCHANGED <<pc, data, todo, curKey, orphans, stack, discovered, v, pvars>>

\* the outer loop is exhausted: make_page_graph returns the graph
BuildDone ==
    /\ pc = "build"
    /\ InnerDone
    /\ todo = {}
    /\ pc' = "built"
    /\ UNCHANGED <<data, todo, curKey, vi, graph, orphans, stack, discovered, v, pvars>>

---------------------------------------------------------------------------
(* find_orphans, lines 110-124 *)

\* orphans = graph.nodes().collect(); dfs = Dfs::new(&graph, "index")
FindOrphansStart ==
    /\ pc = "built"
    /\ orphans' = Range(graph.nodes)
    /\ stack' = DfsNew(graph, Root)
    /\ discovered' = {}
    /\ pc' = "walk"
    /\ UNCHANGED <<data, todo, curKey, vi, graph, v, pvars>>

\* while let Some(v) = dfs.next(&graph) { orphans.remove(v); }
WalkVisit ==
    /\ pc = "walk"
    /\ LET r == DfsNext(graph, stack, discovered)
       IN  /\ r.node # NoNode
           /\ v' = r.node
           /\ stack' = r.stack
           /\ discovered' = r.discovered
           /\ orphans' = orphans \ {r.node}
    /\ UNCHANGED <<pc, data, todo, curKey, vi, graph, pvars>>

\* dfs.next returns None: the loop ends and find_orphans returns orphans
WalkEnd ==
    /\ pc = "walk"
    /\ LET r == DfsNext(graph, stack, discovered)
       IN  /\ r.node = NoNode
           /\ stack' = r.stack
           /\ discovered' = r.discovered
    /\ pc' = "done"
    /\ UNCHANGED <<data, todo, curKey, vi, graph, orphans, v, pvars>>

NextGraph ==
    \/ BuildKey
    \/ BuildValue
    \/ BuildDone
    \/ FindOrphansStart
    \/ WalkVisit
    \/ WalkEnd

SpecGraph == InitGraph /\ [][NextGraph]_vars

\* the program runs to its end: every step that can be taken is taken
SpecGraphFair == SpecGraph /\ WF_vars(NextGraph)

---------------------------------------------------------------------------
(* Text: strings are sequences of one-character strings *)

L_a_open == <<"<", "a">>
L_href == <<"h", "r", "e", "f">>
L_http == <<"h", "t", "t", "p">>
L_s == <<"s">>
L_www == <<":", "/", "/", "w", "w", "w">>
L_traplinked == <<"t", "r", "a", "p", "l", "i", "n", "k", "e", "d">>
L_com == <<"c", "o", "m", "/">>
L_en == <<"e", "n", "/">>
L_nl == <<"n", "l", "/">>

\* the characters \s matches among those of the model
Whitespace == {" ", "\n", "\t"}

\* the class ['|"] of the URL pattern: both quotes and the bar
QuoteClass == {"'", "|", "\""}

\* the class [^#\\/] excludes these
ExcludedFirst == {"#", "\\", "/"}

\* the literal lit stands in text at position p
LitAt(text, p, lit) ==
    /\ p + Len(lit) - 1 <= Len(text)
    /\ \A j \in 1..Len(lit) : text[p + j - 1] = lit[j]

\* . of the regex crate: any character but a line feed
DotAt(text, p) == p <= Len(text) /\ text[p] # "\n"

Min(S) == CHOOSE x \in S : \A y \in S : x <= y

\* \s*, greedy: the first position from p on that holds no whitespace
RECURSIVE SkipWhitespace(_, _)
SkipWhitespace(text, p) ==
    IF p <= Len(text) /\ text[p] \in Whitespace
    THEN SkipWhitespace(text, p + 1) ELSE p

---------------------------------------------------------------------------
(* The three patterns, lines 21-33, matched as the regex crate matches them:
   leftmost match first, a greedy operator taking the longer branch first
   and a lazy one the shorter *)

\* the rest of TRAPL_PREFIXES after http[s]?, tried at p: the position after
\* the match, 0 for no match.  (en/|nl/)? is greedy and closes the pattern
PrefixRestEnd(text, p) ==
    IF /\ LitAt(text, p, L_www)
       /\ DotAt(text, p + 6)
       /\ LitAt(text, p + 7, L_traplinked)
       /\ DotAt(text, p + 17)
       /\ LitAt(text, p + 18, L_com)
    THEN IF LitAt(text, p + 22, L_en) \/ LitAt(text, p + 22, L_nl)
         THEN p + 25 ELSE p + 22
    ELSE 0

\* TRAPL_PREFIXES = http[s]?://www.traplinked.com/(en/|nl/)? tried at
\* position p: the position after the match, 0 for no match
PrefixMatchEnd(text, p) ==
    IF ~LitAt(text, p, L_http) THEN 0
    ELSE IF LitAt(text, p + 4, L_s) /\ PrefixRestEnd(text, p + 5) # 0
         THEN PrefixRestEnd(text, p + 5)
         ELSE PrefixRestEnd(text, p + 4)

\* the positions TRAPL_PREFIXES matches at; the pattern has no ^
PrefixMatchStarts(text) == {p \in 1..Len(text) : PrefixMatchEnd(text, p) # 0}

\* FILTER_TRAPL_URLS = .*traplinked.* and Regex::is_match, which searches
\* from every position of the text
IsMatchTraplUrls(text) ==
    \E st \in 1..Len(text) : \E p \in st..Len(text) :
        /\ \A q \in st..(p - 1) : DotAt(text, q)
        /\ LitAt(text, p, L_traplinked)

\* the positions of text from p on that hold a character of S
PositionsOf(text, p, S) == {q \in p..Len(text) : text[q] \in S}

\* URL from href on, tried with href at h: the capture and the end of the
\* match.  After = and whitespace a character of ['|"] opens, one character
\* outside [^#\\/] and .*? follow up to the first character of ['|"] that
\* leaves a > behind it, and [^>]*?> ends at the first >
UrlTailAt(text, h) ==
    IF ~LitAt(text, h, L_href) THEN [ok |-> FALSE]
    ELSE LET eq == SkipWhitespace(text, h + 4)
             q  == SkipWhitespace(text, eq + 1)
             c0 == q + 1
         IN  IF ~(/\ eq <= Len(text) /\ text[eq] = "="
                  /\ q <= Len(text) /\ text[q] \in QuoteClass
                  /\ c0 <= Len(text) /\ text[c0] \notin ExcludedFirst)
             THEN [ok |-> FALSE]
             ELSE LET closes ==
                        {ce \in PositionsOf(text, c0 + 1, QuoteClass) :
                            /\ \A x \in (c0 + 1)..(ce - 1) : DotAt(text, x)
                            /\ PositionsOf(text, ce + 1, {">"}) # {}}
                  IN  IF closes = {} THEN [ok |-> FALSE]
                      ELSE LET ce == Min(closes)
                           IN  [ok |-> TRUE,
                                capture |-> SubSeq(text, c0, ce - 1),
                                end |-> Min(PositionsOf(text, ce + 1, {">"})) + 1]

\* URL = <a[^>]*?href\s*=\s*['|"]([^#\\/].*?)['|"][^>]*?> tried at position p:
\* [^>]*? is lazy, so the href nearest to <a that lets the rest match is taken
UrlMatchAt(text, p) ==
    IF ~LitAt(text, p, L_a_open) THEN [ok |-> FALSE]
    ELSE LET hs == {h \in (p + 2)..Len(text) :
                       /\ \A x \in (p + 2)..(h - 1) : text[x] # ">"
                       /\ UrlTailAt(text, h).ok}
         IN  IF hs = {} THEN [ok |-> FALSE] ELSE UrlTailAt(text, Min(hs))

\* URL.captures_iter(text) from position p on: the matches do not overlap,
\* the search for the next one starts where the last one ended
RECURSIVE CapturesFrom(_, _)
CapturesFrom(text, p) ==
    LET starts == {st \in p..Len(text) : UrlMatchAt(text, st).ok}
    IN  IF starts = {} THEN <<>>
        ELSE LET m == UrlMatchAt(text, Min(starts))
             IN  <<m.capture>> \o CapturesFrom(text, m.end)

---------------------------------------------------------------------------
(* The functions of the pipeline, lines 139-179 *)

\* get_urls_from: group 1 of every match, in order
get_urls_from(text) == CapturesFrom(text, 1)

\* filter_regex(items, &FILTER_TRAPL_URLS), the only call
filter_regex(items) == SelectSeq(items, IsMatchTraplUrls)

\* filter_prefix(text, &TRAPL_PREFIXES): Regex::replace puts "" in the place
\* of the leftmost match, wherever in the text it is
filter_prefix(text) ==
    IF PrefixMatchStarts(text) = {} THEN text
    ELSE LET st == Min(PrefixMatchStarts(text))
         IN  SubSeq(text, 1, st - 1) \o SubSeq(text, PrefixMatchEnd(text, st), Len(text))

\* remove_trailing_slash: one pop when the text ends with a slash
remove_trailing_slash(text) ==
    IF text # <<>> /\ text[Len(text)] = "/"
    THEN SubSeq(text, 1, Len(text) - 1) ELSE text

\* is_crawling_leftover without the test for a colon
is_crawling_leftover_no_colon(text) == text # <<>>

\* is_crawling_leftover without the test for the empty text
is_crawling_leftover_no_empty(text) == ":" \notin Range(text)

\* is_crawling_leftover: FALSE for the empty text and for a text with a
\* colon, TRUE for every other; main keeps the texts it is TRUE of
is_crawling_leftover(text) ==
    IF text = <<>> THEN FALSE
    ELSE IF ":" \in Range(text) THEN FALSE
    ELSE TRUE

---------------------------------------------------------------------------
(* Page texts *)

\* most pieces a link target is put together from
MaxPieces == 4

\* most anchors of a page text of several anchors
MaxAnchors == 2

RECURSIVE Concat(_)
Concat(ss) == IF ss = <<>> THEN <<>> ELSE Head(ss) \o Concat(Tail(ss))

\* pieces of link targets
Pieces ==
    { <<"h", "t", "t", "p", ":", "/", "/", "w", "w", "w", ".", "t", "r", "a", "p", "l", "i", "n", "k", "e", "d", ".", "c", "o", "m", "/">>, <<"h", "t", "t", "p", "s", ":", "/", "/", "w", "w", "w", ".", "t", "r", "a", "p", "l", "i", "n", "k", "e", "d", ".", "c", "o", "m", "/">>,
      <<"e", "n", "/">>, <<"a">>, <<"/">>, <<":">> }

\* whole link targets for the texts of several anchors
LinkTargets ==
    { <<"x">>, <<"a", "|", "b">>, <<"#", "t">>, <<"h", "t", "t", "p", ":", "/", "/", "w", "w", "w", ".", "t", "r", "a", "p", "l", "i", "n", "k", "e", "d", ".", "c", "o", "m", "/", "a", "/">>, <<"m", "a", "i", "l", "t", "o", ":", "t", "r", "a", "p", "l", "i", "n", "k", "e", "d">> }

\* forms of an anchor: href in single quotes; in double quotes with blanks
\* round = ; between other attributes; no href; href without quotes
QuotedForms == {"sq", "dq", "attrs"}

Render(a) ==
    CASE a.form = "sq"       -> <<"<", "a", " ", "h", "r", "e", "f", "=", "'">> \o a.target \o <<"'", ">">>
      [] a.form = "dq"       -> <<"<", "a", " ", " ", "h", "r", "e", "f", " ", "=", " ", " ", " ", "\"">> \o a.target \o <<"\"", ">">>
      [] a.form = "attrs"    -> <<"<", "a", " ", "c", "l", "a", "s", "s", "=", "'", "c", "'", " ", "h", "r", "e", "f", "=", "\"">> \o a.target \o <<"\"", " ", "i", "d", "=", "'", "i", "'", ">">>
      [] a.form = "nohref"   -> <<"<", "a", ">">>
      [] a.form = "unquoted" -> <<"<", "a", " ", "h", "r", "e", "f", "=">> \o a.target \o <<">">>

\* the text of a page: its anchors with ", " in front of each
RenderAll(as) == Concat([n \in 1..Len(as) |-> <<",", " ">> \o Render(as[n])])

\* one anchor with a target of up to MaxPieces pieces
PieceAnchors ==
    { <<[form |-> "sq", target |-> Concat(ps)]>> : ps \in SeqsUpTo(Pieces, MaxPieces) }

AnchorForms ==
    {[form |-> f, target |-> t] : f \in QuotedForms, t \in LinkTargets}
        \cup {[form |-> "nohref", target |-> <<>>],
              [form |-> "unquoted", target |-> <<"x">>]}

PageAnchors == PieceAnchors \cup SeqsUpTo(AnchorForms, MaxAnchors)

\* path.file_name() of the page
PageName == "page.html"

---------------------------------------------------------------------------
(* The body of the crawl loop of main, lines 63-81, for one page *)

InitPage ==
    /\ anchors \in PageAnchors
    /\ file = RenderAll(anchors)
    /\ ppc = "read"
    /\ urls = <<>>
    /\ traplUrls = <<>>
    /\ ui = 1
    /\ raw = <<>>
    /\ cur = <<>>
    /\ tags = <<>>
    /\ map = <<>>
    /\ pc = "idle"
    /\ data = <<>>
    /\ todo = {}
    /\ curKey = NoKey
    /\ vi = 1
    /\ graph = EmptyGraph
    /\ orphans = {}
    /\ stack = <<>>
    /\ discovered = {}
    /\ v = NoNode

\* let urls = get_urls_from(&file);
GetUrls ==
    /\ ppc = "read"
    /\ urls' = get_urls_from(file)
    /\ ppc' = "filter"
    /\ UNCHANGED <<anchors, file, traplUrls, ui, raw, cur, tags, map, gvars>>

\* let urls = filter_regex(&urls, &FILTER_TRAPL_URLS);
FilterRegex ==
    /\ ppc = "filter"
    /\ traplUrls' = filter_regex(urls)
    /\ ui' = 1
    /\ ppc' = "prefix"
    /\ UNCHANGED <<anchors, file, urls, raw, cur, tags, map, gvars>>

\* .map(|u| filter_prefix(&u, &TRAPL_PREFIXES)) for the next url
FilterPrefix ==
    /\ ppc = "prefix"
    /\ ui <= Len(traplUrls)
    /\ raw' = traplUrls[ui]
    /\ cur' = filter_prefix(traplUrls[ui])
    /\ ppc' = "slash"
    /\ UNCHANGED <<anchors, file, urls, traplUrls, ui, tags, map, gvars>>

\* .map(remove_trailing_slash)
RemoveTrailingSlash ==
    /\ ppc = "slash"
    /\ cur' = remove_trailing_slash(cur)
    /\ ppc' = "leftover"
    /\ UNCHANGED <<anchors, file, urls, traplUrls, ui, raw, tags, map, gvars>>

\* .filter(|s| is_crawling_leftover(s)).collect(): the text is pushed on
\* tags or dropped, and the chain goes on with the next url
IsCrawlingLeftover ==
    /\ ppc = "leftover"
    /\ tags' = IF is_crawling_leftover(cur) THEN Append(tags, cur) ELSE tags
    /\ ui' = ui + 1
    /\ ppc' = "prefix"
    /\ UNCHANGED <<anchors, file, urls, traplUrls, raw, cur, map, gvars>>

\* map.insert(key, tags) once the chain is exhausted
MapInsert ==
    /\ ppc = "prefix"
    /\ ui > Len(traplUrls)
    /\ map' = [k \in {PageName} |-> tags]
    /\ ppc' = "inserted"
    /\ UNCHANGED <<anchors, file, urls, traplUrls, ui, raw, cur, tags, gvars>>

NextPage ==
    \/ GetUrls
    \/ FilterRegex
    \/ FilterPrefix
    \/ RemoveTrailingSlash
    \/ IsCrawlingLeftover
    \/ MapInsert

SpecPage == InitPage /\ [][NextPage]_vars

---------------------------------------------------------------------------
(* What the LinkageMap says, computed from data alone *)

Keys == DOMAIN data

Targets == UNION {Range(data[k]) : k \in Keys}

Pairs == UNION {{<<k, t>> : t \in Range(data[k])} : k \in Keys}

LinksFrom(n) == {p[2] : p \in {q \in Pairs : q[1] = n}}

\* the identifiers a directed walk of zero or more links reaches from S
RECURSIVE ReachFrom(_)
ReachFrom(S) ==
    LET N == S \cup UNION {LinksFrom(n) : n \in S}
    IN  IF N = S THEN S ELSE ReachFrom(N)

Built == pc \in {"built", "walk", "done"}

NoDuplicates(s) == \A i, j \in DOMAIN s : s[i] = s[j] => i = j

\* C1: find_orphans(make_page_graph(map)) is exactly the set of nodes that no
\* directed walk from "index" reaches
C1_OrphansAreUnreachable ==
    pc = "done" => orphans = (Keys \cup Targets) \ ReachFrom({"index"})

\* the walk ended on {index: [a], a: [b], b: [], c: []} with {c}, and on a
\* map with a cycle and with a self-link
C1_Witness ==
    /\ pc = "done"
    /\ \/ /\ data = [k \in Ids |-> IF k = "index" THEN <<"a">>
                                  ELSE IF k = "a" THEN <<"b">> ELSE <<>>]
          /\ orphans = {"c"}
       \/ /\ <<"a", "b">> \in Pairs /\ <<"b", "a">> \in Pairs
          /\ <<"index", "a">> \in Pairs
          /\ orphans = {}

\* C2: every target of data is a node of the built graph, and a target that
\* is no key has no outgoing edge
C2_TargetsAreNodes ==
    Built => \A t \in Targets :
                /\ ContainsNode(graph, t)
                /\ t \notin Keys =>
                      /\ Neighbors(graph, t) = <<>>
                      /\ \A e \in Range(graph.edges) : e[1] # t

C2_Witness ==
    /\ pc = "built"
    /\ \E t \in Targets : t \notin Keys /\ ContainsNode(graph, t)

\* C3: "index", when a node of the graph, is not in the result of find_orphans
C3_RootNotOrphan ==
    (pc = "done" /\ ContainsNode(graph, "index")) => "index" \notin orphans

\* "index" is a node without any edge, next to other nodes
C3_Witness ==
    /\ pc = "done"
    /\ ContainsNode(graph, "index")
    /\ \A e \in Range(graph.edges) : e[1] # "index" /\ e[2] # "index"
    /\ orphans # {}

\* C4: without a node "index" the walk removes nothing: the result is the
\* whole node set, and "index" is not in it
C4_AbsentRoot ==
    (pc \in {"walk", "done"} /\ ~ContainsNode(graph, "index")) =>
        /\ orphans = Range(graph.nodes)
        /\ "index" \notin orphans

C4_Witness ==
    /\ pc = "done"
    /\ ~ContainsNode(graph, "index")
    /\ Cardinality(orphans) >= 2

\* C9: the nodes of the built graph are the keys and the targets, its edges
\* the distinct pairs (source, target), directed from source to target, one
\* edge for a target repeated in a list
C9_GraphIsTheMap ==
    Built =>
        /\ Range(graph.nodes) = Keys \cup Targets
        /\ NoDuplicates(graph.nodes)
        /\ Range(graph.edges) = Pairs
        /\ Len(graph.edges) = Cardinality(Pairs)
        /\ \A n \in Range(graph.nodes) :
              /\ Range(Neighbors(graph, n)) = LinksFrom(n)
              /\ NoDuplicates(Neighbors(graph, n))

\* a page lists a target twice, and some link has no link back
C9_Witness ==
    /\ pc = "built"
    /\ \E k \in Keys : ~NoDuplicates(data[k])
    /\ \E p \in Pairs : <<p[2], p[1]>> \notin Pairs

\* C10: the walk of find_orphans ends; every dfs.next returns a node that
\* was not visited before and marks it, visited nodes stay visited, and
\* orphans only loses nodes; the loop ends on an empty stack
C10_WalkTerminates ==
    /\ <>(pc = "done")
    /\ [][(pc = "walk" /\ pc' = "walk") =>
             /\ v' \notin discovered
             /\ discovered' = discovered \cup {v'}
             /\ orphans' = orphans \ {v'}]_vars
    /\ [][(pc = "walk" /\ pc' = "done") =>
             /\ stack' = <<>>
             /\ orphans' = orphans
             /\ discovered' = discovered]_vars

\* the walk is about to end by popping a node that was pushed twice and is
\* visited already
C10_Witness ==
    /\ pc = "walk"
    /\ stack # <<>>
    /\ Range(stack) \subseteq discovered
    /\ discovered = Keys \cup Targets
    /\ Cardinality(discovered) = 3

---------------------------------------------------------------------------
(* Claims about the page part *)

IsSuffix(s, t) == \E k \in 1..(Len(t) + 1) : s = SubSeq(t, k, Len(t))

EndsWithSlash(t) == t # <<>> /\ t[Len(t)] = "/"

\* prefix strip, trailing-slash trim and leftover filter run on one text: the
\* identifiers emitted, none or one
Rerun(t) ==
    LET r == remove_trailing_slash(filter_prefix(t))
    IN  IF is_crawling_leftover(r) THEN <<r>> ELSE <<>>

\* C5: filter_prefix returns its text or the text with a prefix match cut
\* off at position 0: the result is a suffix of the text
C5_StripsOnlyFront ==
    ppc = "slash" =>
        /\ IsSuffix(cur, raw)
        /\ cur # raw => PrefixMatchEnd(raw, 1) # 0

\* C6 as stated: a second run of the pipeline on an emitted identifier gives
\* the same identifier or drops it, and an emitted identifier has no
\* strippable prefix and no trailing slash
C6_Idempotent ==
    \A n \in DOMAIN tags :
        /\ Rerun(tags[n]) \in {<<tags[n]>>, <<>>}
        /\ PrefixMatchStarts(tags[n]) = {}
        /\ ~EndsWithSlash(tags[n])

\* C6 amended: an emitted identifier has no strippable prefix; a second run
\* gives the same identifier unless it ends with a slash, and then takes one
\* more slash off it, dropping it when nothing is left
C6_IdempotentUpToSlash ==
    \A n \in DOMAIN tags :
        /\ PrefixMatchStarts(tags[n]) = {}
        /\ Rerun(tags[n]) =
              IF ~EndsWithSlash(tags[n]) THEN <<tags[n]>>
              ELSE IF Len(tags[n]) = 1 THEN <<>>
              ELSE <<SubSeq(tags[n], 1, Len(tags[n]) - 1)>>

\* an identifier was emitted that still ends with a slash, behind a prefix
\* that was stripped
C6_Witness ==
    /\ ppc = "inserted"
    /\ \E n \in DOMAIN tags : EndsWithSlash(tags[n]) /\ Len(tags[n]) > 1
    /\ raw # <<>> /\ PrefixMatchEnd(raw, 1) # 0

\* C7: every identifier in tags, and so in the map, is non-empty and has no
\* colon; the leftover filter drops the empty text and the text with a
\* colon and keeps every other text, and the chain goes on after a drop
C7_LeftoverFilter ==
    /\ [](\A n \in DOMAIN tags : tags[n] # <<>> /\ ":" \notin Range(tags[n]))
    /\ [](\A k \in DOMAIN map :
            \A n \in DOMAIN map[k] : map[k][n] # <<>> /\ ":" \notin Range(map[k][n]))
    /\ [][ppc = "leftover" =>
            /\ tags' = IF cur = <<>> \/ ":" \in Range(cur)
                       THEN tags ELSE Append(tags, cur)
            /\ ppc' = "prefix"]_vars
    /\ [][ppc' = "inserted" => map'[PageName] = tags]_vars

\* the map holds one identifier of a page of which another url, with a
\* colon left in it, was dropped
C7_Witness ==
    /\ ppc = "inserted"
    /\ Len(traplUrls) = 2
    /\ Len(map[PageName]) = 1
    /\ ":" \in Range(cur)

\* the targets of the anchors with a quoted href that do not start with
\* #, / or \, in order
RECURSIVE ExpectedUrls(_)
ExpectedUrls(as) ==
    IF as = <<>> THEN <<>>
    ELSE LET a == Head(as)
         IN  (IF a.form \in QuotedForms /\ a.target[1] \notin ExcludedFirst
              THEN <<a.target>> ELSE <<>>) \o ExpectedUrls(Tail(as))

\* every quoted href of the page has a target of at least one character
TargetsNotEmpty ==
    \A n \in DOMAIN anchors :
        anchors[n].form \in QuotedForms => anchors[n].target # <<>>

\* C8: get_urls_from returns the targets of the well-formed anchors whose
\* target does not start with #, / or \, one string for each, in order
C8_ExtractsEveryTarget ==
    (ppc # "read" /\ TargetsNotEmpty) => urls = ExpectedUrls(anchors)

===========================================================================
